---- MODULE Spec2Model ----
(***************************************************************************)
(* Model of wayback_archiver.py: main() and download_page().               *)
(*                                                                         *)
(* A Python string is modelled as a sequence of tokens.  A token is either *)
(* one of the delimiters the program inspects ("/", ":", "_"), one of the  *)
(* percent-escapes "%2F" / "%3A", or a word that contains none of them.    *)
(* The input URLs contain no "?", "#", ";", "[" or "]", so urlparse never  *)
(* raises and never splits off params, a query or a fragment.              *)
(***************************************************************************)
EXTENDS Integers, Sequences, FiniteSets, TLC

\* -------------------------------------------------------------------------
\* Bounds
\* -------------------------------------------------------------------------
MaxRows == 2
MaxLimit == 2

\* -------------------------------------------------------------------------
\* Values
\* -------------------------------------------------------------------------
None == <<>>
Root == <<>>
NoResponse == "no_response"
FetchError == "fetch_error"
Truncated == "truncated"
Bodies == {"body_a", "body_b"}

PENDING == "PENDING"
FETCHING == "FETCHING"
DONE == "DONE"
FAILED == "FAILED"

HeaderRow == << <<"original">>, <<"timestamp">>, <<"endkey">> >>

U_post == <<"https", ":", "/", "/", "example.com", "/", "blog", "/", "post-1">>
U_root == <<"https", ":", "/", "/", "example.com", "/">>
U_enc == <<"blog", "%2F">>
TS == <<"2020">>

Rows ==
  { HeaderRow,
    << U_post, TS, <<"endkey">> >>,
    << U_root, TS >>,
    << U_enc, TS >>,
    << <<"original">>, <<"timestamp">> >>,
    << U_post >> }

SeqsUpTo(S, n) == UNION { [1..k -> S] : k \in 0..n }

Inputs ==
  { [ok |-> FALSE, rows |-> <<>>] } \cup
  { [ok |-> TRUE, rows |-> r] : r \in SeqsUpTo(Rows, MaxRows) }

Limits == { <<>> } \cup { <<n>> : n \in (-1)..MaxLimit }

\* -------------------------------------------------------------------------
\* String functions
\* -------------------------------------------------------------------------
Min(a, b) == IF a < b THEN a ELSE b
Max(a, b) == IF a > b THEN a ELSE b

\* s.split(sep): the pieces between occurrences of sep (empty pieces kept)
RECURSIVE SplitFrom(_, _, _, _)
SplitFrom(s, sep, k, cur) ==
  IF k > Len(s) THEN << cur >>
  ELSE IF s[k] = sep THEN << cur >> \o SplitFrom(s, sep, k + 1, <<>>)
  ELSE SplitFrom(s, sep, k + 1, Append(cur, s[k]))

Split(s, sep) == SplitFrom(s, sep, 1, <<>>)

\* s.replace(old, new) for single-character old and new
Replace(s, old, new) == [k \in 1..Len(s) |-> IF s[k] = old THEN new ELSE s[k]]

\* urllib.parse.unquote on the escapes of the alphabet
Unquote(s) ==
  [k \in 1..Len(s) |->
     IF s[k] = "%2F" THEN "/" ELSE IF s[k] = "%3A" THEN ":" ELSE s[k]]

RECURSIVE LStrip(_, _)
LStrip(s, c) == IF s # <<>> /\ Head(s) = c THEN LStrip(Tail(s), c) ELSE s

RECURSIVE RStrip(_, _)
RStrip(s, c) ==
  IF s # <<>> /\ s[Len(s)] = c THEN RStrip(SubSeq(s, 1, Len(s) - 1), c) ELSE s

Strip(s, c) == RStrip(LStrip(s, c), c)

EndsWith(s, c) == s # <<>> /\ s[Len(s)] = c

\* seq[:n] of Python, n any integer
PySlice(s, n) ==
  LET stop == IF n < 0 THEN Max(Len(s) + n, 0) ELSE Min(n, Len(s))
  IN SubSeq(s, 1, stop)

\* urlparse(url).path.  A scheme is a leading word followed by ":"; after
\* the scheme, "//" introduces a netloc that runs up to the next "/".
SchemeChars(t) == t \notin {"/", ":", "_", "%2F", "%3A", "2020"}

UrlPath(url) ==
  LET hasScheme == Len(url) >= 2 /\ SchemeChars(url[1]) /\ url[2] = ":"
      rest == IF hasScheme THEN SubSeq(url, 3, Len(url)) ELSE url
      hasNetloc == Len(rest) >= 2 /\ rest[1] = "/" /\ rest[2] = "/"
      afterSlashes == SubSeq(rest, 3, Len(rest))
      stops == { k \in 1..Len(afterSlashes) : afterSlashes[k] = "/" }
      cut == IF stops = {} THEN Len(afterSlashes) + 1
             ELSE CHOOSE k \in stops : \A m \in stops : k <= m
  IN IF hasNetloc THEN SubSeq(afterSlashes, cut, Len(afterSlashes)) ELSE rest


\* -------------------------------------------------------------------------
\* Pieces of main() and download_page()
\* -------------------------------------------------------------------------
\* variants of the definitions below, each with one plausible slip
HasHeader_Never(d) == FALSE

HasHeader_FirstField(d) == d # <<>> /\ d[1][1] = <<"original">>

IsValidEntry_Three(entry) == Len(entry) >= 3

ExceptPc_Propagate == "crashed"

AfterReturn_Retry(r) == IF r = <<>> THEN "makedirs" ELSE "sleep"

SleepCalls_OnSuccess(r) == IF r = <<>> THEN 0 ELSE 1

HasHeader(d) == d # <<>> /\ d[1] = HeaderRow

IsValidEntry(entry) == Len(entry) >= 2

ArchivePrefix == <<"https", ":", "/", "/", "web.archive.org", "/", "web", "/">>

WaybackUrl(timestamp, original_url) ==
  ArchivePrefix \o timestamp \o <<"/">> \o original_url

MakeEntry(entry) ==
  [original_url |-> entry[1], wayback_url |-> WaybackUrl(entry[2], entry[1])]

LimitApplies(limit, urls) ==
  limit # <<>> /\ limit[1] # 0 /\ limit[1] < Len(urls)

\* path_dir below args.output
PathDir(original_url) == Replace(LStrip(UrlPath(original_url), "/"), "/", "_")

SplitIndex == 5

ExtractOriginal(wayback_url) == Unquote(Split(wayback_url, "/")[SplitIndex + 1])

FileName(wayback_url) ==
  LET parsed == UrlPath(ExtractOriginal(wayback_url))
      path == IF EndsWith(parsed, "/") THEN Append(parsed, "index") ELSE parsed
  IN Strip(Replace(path, "/", "_"), "_")

HtmlFile(dir, wayback_url) == << dir, Append(FileName(wayback_url), ".html") >>

\* where control goes when an exception is raised inside download_page
ExceptPc == "return"

\* where control goes after download_page has returned
AfterReturn(r) == "sleep"

\* number of time.sleep calls at the end of one loop iteration
SleepCalls(r) == 1

\* -------------------------------------------------------------------------
\* State
\* -------------------------------------------------------------------------
VARIABLES
  input,        \* content of args.input_file (ok = FALSE: unreadable or not JSON)
  limit,        \* args.limit: <<>> when unset, <<n>> otherwise
  pc,           \* position in main() / download_page()
  data, url_data, wayback_urls,
  j,            \* position of the conversion loop in url_data
  found,        \* wayback_urls as it was before the limit was applied
  i,            \* position of the download loop in wayback_urls
  output_dir, html_file, response, ret,   \* locals of download_page and its result
  fs,           \* directory tree below args.output: dirs and files
  gets,         \* the GET requests issued, in order
  sleeps,       \* number of time.sleep calls made
  status,       \* per entry: PENDING, FETCHING, DONE, FAILED
  attempts,     \* per finished entry: target path, success, body
  fs_before     \* fs when the current entry was taken from the list

vars == << input, limit, pc, data, url_data, wayback_urls, j, found, i,
           output_dir, html_file, response, ret, fs, gets, sleeps, status,
           attempts, fs_before >>

EmptyFs == [dirs |-> {}, files |-> <<>>]

Init ==
  /\ input \in Inputs
  /\ limit \in Limits
  /\ pc = "load"
  /\ data = <<>>
  /\ url_data = <<>>
  /\ wayback_urls = <<>>
  /\ j = 1
  /\ found = <<>>
  /\ i = 1
  /\ output_dir = <<>>
  /\ html_file = None
  /\ response = NoResponse
  /\ ret = None
  /\ fs = EmptyFs
  /\ gets = <<>>
  /\ sleeps = 0
  /\ status = <<>>
  /\ attempts = <<>>
  /\ fs_before = EmptyFs

\* main: read the input file
Load ==
  /\ pc = "load"
  /\ IF input.ok
       THEN data' = input.rows /\ pc' = "skip_header"
       ELSE data' = data /\ pc' = "load_error"
  /\ UNCHANGED << input, limit, url_data, wayback_urls, j, found, i, output_dir,
                  html_file, response, ret, fs, gets, sleeps, status, attempts,
                  fs_before >>

\* main: skip the header row
SkipHeader ==
  /\ pc = "skip_header"
  /\ url_data' = IF HasHeader(data) THEN Tail(data) ELSE data
  /\ j' = 1
  /\ pc' = "convert"
  /\ UNCHANGED << input, limit, data, wayback_urls, found, i, output_dir,
                  html_file, response, ret, fs, gets, sleeps, status, attempts,
                  fs_before >>

\* main: one iteration of the conversion loop
ConvertEntry ==
  /\ pc = "convert"
  /\ j <= Len(url_data)
  /\ wayback_urls' = IF IsValidEntry(url_data[j])
                       THEN Append(wayback_urls, MakeEntry(url_data[j]))
                       ELSE wayback_urls
  /\ j' = j + 1
  /\ UNCHANGED << input, limit, pc, data, url_data, found, i, output_dir,
                  html_file, response, ret, fs, gets, sleeps, status, attempts,
                  fs_before >>

\* main: the conversion loop is exhausted
ConvertDone ==
  /\ pc = "convert"
  /\ j > Len(url_data)
  /\ pc' = "check_empty"
  /\ UNCHANGED << input, limit, data, url_data, wayback_urls, j, found, i,
                  output_dir, html_file, response, ret, fs, gets, sleeps,
                  status, attempts, fs_before >>

\* main: no valid URLs ends the run
CheckEmpty ==
  /\ pc = "check_empty"
  /\ pc' = IF wayback_urls = <<>> THEN "no_urls" ELSE "limit"
  /\ UNCHANGED << input, limit, data, url_data, wayback_urls, j, found, i,
                  output_dir, html_file, response, ret, fs, gets, sleeps,
                  status, attempts, fs_before >>

\* main: apply --limit
ApplyLimit ==
  /\ pc = "limit"
  /\ found' = wayback_urls
  /\ wayback_urls' = IF LimitApplies(limit, wayback_urls)
                       THEN PySlice(wayback_urls, limit[1])
                       ELSE wayback_urls
  /\ status' = [k \in 1..Len(wayback_urls') |-> PENDING]
  /\ i' = 1
  /\ pc' = "loop"
  /\ UNCHANGED << input, limit, data, url_data, j, output_dir, html_file,
                  response, ret, fs, gets, sleeps, attempts, fs_before >>

\* main: take the next entry and call download_page
LoopNext ==
  /\ pc = "loop"
  /\ i <= Len(wayback_urls)
  /\ output_dir' = PathDir(wayback_urls[i].original_url)
  /\ html_file' = None
  /\ response' = NoResponse
  /\ ret' = None
  /\ status' = [status EXCEPT ![i] = FETCHING]
  /\ fs_before' = fs
  /\ pc' = "makedirs"
  /\ UNCHANGED << input, limit, data, url_data, wayback_urls, j, found, i, fs,
                  gets, sleeps, attempts >>

\* main: the download loop is exhausted
LoopEnd ==
  /\ pc = "loop"
  /\ i > Len(wayback_urls)
  /\ pc' = "done"
  /\ UNCHANGED << input, limit, data, url_data, wayback_urls, j, found, i,
                  output_dir, html_file, response, ret, fs, gets, sleeps,
                  status, attempts, fs_before >>

\* an exception inside download_page: logged, None is returned
Raise(body) ==
  /\ ret' = None
  /\ status' = [status EXCEPT ![i] = FAILED]
  /\ attempts' = Append(attempts, [path |-> html_file', ok |-> FALSE, body |-> body])
  /\ pc' = ExceptPc

\* download_page: os.makedirs, then the file name is derived
MakeDirs ==
  /\ pc = "makedirs"
  /\ \E ok \in BOOLEAN :
       IF ok
         THEN /\ fs' = [fs EXCEPT !.dirs = @ \cup {Root, output_dir}]
              /\ html_file' = HtmlFile(output_dir, wayback_urls[i].wayback_url)
              /\ pc' = "get"
              /\ UNCHANGED << ret, status, attempts >>
         ELSE /\ fs' = fs
              /\ html_file' = html_file
              /\ Raise(NoResponse)
  /\ UNCHANGED << input, limit, data, url_data, wayback_urls, j, found, i,
                  output_dir, response, gets, sleeps, fs_before >>

\* download_page: requests.get and raise_for_status
Get ==
  /\ pc = "get"
  /\ gets' = Append(gets, wayback_urls[i].wayback_url)
  /\ html_file' = html_file
  /\ \E r \in Bodies \cup {FetchError} :
       /\ response' = r
       /\ IF r = FetchError
            THEN Raise(NoResponse)
            ELSE pc' = "write" /\ UNCHANGED << ret, status, attempts >>
  /\ UNCHANGED << input, limit, data, url_data, wayback_urls, j, found, i,
                  output_dir, fs, sleeps, fs_before >>

\* download_page: open(html_file, 'w') and f.write(response.text)
WriteFile ==
  /\ pc = "write"
  /\ html_file' = html_file
  /\ \E outcome \in {"ok", "open_error", "write_error"} :
       CASE outcome = "ok" ->
              /\ fs' = [fs EXCEPT !.files = (html_file :> response) @@ @]
              /\ ret' = html_file
              /\ status' = [status EXCEPT ![i] = DONE]
              /\ attempts' = Append(attempts,
                               [path |-> html_file, ok |-> TRUE, body |-> response])
              /\ pc' = "return"
         [] outcome = "open_error" ->
              /\ fs' = fs
              /\ Raise(response)
         [] outcome = "write_error" ->
              /\ fs' = [fs EXCEPT !.files = (html_file :> Truncated) @@ @]
              /\ Raise(response)
  /\ UNCHANGED << input, limit, data, url_data, wayback_urls, j, found, i,
                  output_dir, response, gets, sleeps, fs_before >>

\* main: download_page has returned
Return ==
  /\ pc = "return"
  /\ pc' = AfterReturn(ret)
  /\ UNCHANGED << input, limit, data, url_data, wayback_urls, j, found, i,
                  output_dir, html_file, response, ret, fs, gets, sleeps,
                  status, attempts, fs_before >>

\* main: time.sleep(args.delay), then the loop advances
Sleep ==
  /\ pc = "sleep"
  /\ sleeps' = sleeps + SleepCalls(ret)
  /\ i' = i + 1
  /\ pc' = "loop"
  /\ UNCHANGED << input, limit, data, url_data, wayback_urls, j, found,
                  output_dir, html_file, response, ret, fs, gets,
                  status, attempts, fs_before >>

Next ==
  \/ Load
  \/ SkipHeader
  \/ ConvertEntry
  \/ ConvertDone
  \/ CheckEmpty
  \/ ApplyLimit
  \/ LoopNext
  \/ LoopEnd
  \/ MakeDirs
  \/ Get
  \/ WriteFile
  \/ Return
  \/ Sleep

Spec == Init /\ [][Next]_vars


\* -------------------------------------------------------------------------
\* Claims
\* -------------------------------------------------------------------------
Finished(k) == status[k] \in {DONE, FAILED}

InLoop == pc \in {"loop", "makedirs", "get", "write", "return", "sleep", "done"}

\* C1: failure isolation. Once an entry has failed inside download_page,
\* the run does not stop before every later entry has been attempted and
\* has finished as DONE or FAILED; the failure comes back to main as None.
C1_FailureIsolation ==
  /\ \A k \in DOMAIN status :
       (status[k] = FAILED /\ ~ENABLED Next) =>
          \A m \in (k + 1)..Len(status) : Finished(m)
  /\ \A k \in DOMAIN status :
       (status[k] = FAILED /\ k = i /\ pc = "return") => ret = None

C1_Witness ==
  /\ pc = "done"
  /\ Len(status) >= 2
  /\ status[1] = FAILED
  /\ status[2] = DONE
  /\ Len(gets) = 1

\* C2: limit truncation. With --limit N and N less than the number of
\* entries found, exactly the first N entries are processed, for every
\* integer N (N = 0 and negative N processing none).
C2_LimitTruncation ==
  (InLoop /\ limit # <<>> /\ limit[1] < Len(found)) =>
     /\ wayback_urls = SubSeq(found, 1, limit[1])
     /\ (pc = "done" => Len(attempts) = Max(limit[1], 0))

\* C3: path-to-filename mapping. A successful download of an entry whose
\* original URL has path P is written to <P with "/" -> "_">/<stem>.html,
\* stem being P (plus "index" after a trailing "/") with "/" -> "_" and the
\* edge underscores stripped.
ClaimStem(P) ==
  Strip(Replace(IF EndsWith(P, "/") THEN Append(P, "index") ELSE P, "/", "_"), "_")

C3_PathToFilename ==
  \A k \in DOMAIN attempts :
     attempts[k].ok =>
        LET P == UrlPath(wayback_urls[k].original_url)
        IN attempts[k].path = << Replace(P, "/", "_"), Append(ClaimStem(P), ".html") >>

\* C4: fatal cases process nothing. When the input cannot be loaded, or it
\* holds no row of two or more fields besides a leading header row, the run
\* stops at one of the two early returns with no GET issued, no directory
\* or file created and no sleep.
NoValidRows(rows) ==
  \A p \in DOMAIN rows :
     Len(rows[p]) >= 2 =>
        (p = 1 /\ rows[p] = << <<"original">>, <<"timestamp">>, <<"endkey">> >>)

C4_FatalProcessesNothing ==
  (~input.ok \/ NoValidRows(input.rows)) =>
     /\ gets = <<>>
     /\ fs = EmptyFs
     /\ sleeps = 0
     /\ ~InLoop
     /\ (~ENABLED Next => pc \in {"load_error", "no_urls"})

C4_Witness ==
  /\ pc = "no_urls"
  /\ Len(input.rows) = 2
  /\ input.rows[1] = HeaderRow
  /\ Len(input.rows[2]) = 1

\* C5: delay invariant. A finished run has slept at least once per entry
\* processed; while entry i is being downloaded exactly the sleeps of the
\* entries before it have happened; and a sleep never precedes the end of
\* the attempt it follows.
C5_DelayInvariant ==
  /\ pc = "done" => sleeps >= Len(wayback_urls)
  /\ pc \in {"makedirs", "get", "write", "return"} => sleeps = i - 1
  /\ sleeps <= Cardinality({k \in DOMAIN status : Finished(k)})

C5_Witness ==
  /\ pc = "done"
  /\ sleeps = 2
  /\ status[1] = DONE
  /\ status[2] = FAILED

\* C6: header skip. The first row is dropped exactly when it is the
\* literal header triple; otherwise every row is kept, and a header triple
\* at a later position becomes an ordinary entry.
LiteralHeader == << <<"original">>, <<"timestamp">>, <<"endkey">> >>

C6_HeaderSkip ==
  /\ pc \notin {"load", "load_error", "skip_header"} =>
       url_data = IF input.rows # <<>> /\ input.rows[1] = LiteralHeader
                    THEN SubSeq(input.rows, 2, Len(input.rows))
                    ELSE input.rows
  /\ pc = "check_empty" =>
       \A p \in 2..Len(input.rows) :
          input.rows[p] = LiteralHeader =>
             \E k \in DOMAIN wayback_urls :
                wayback_urls[k].original_url = <<"original">>

C6_Witness ==
  /\ pc = "check_empty"
  /\ Len(input.rows) = 2
  /\ input.rows[1] = HeaderRow
  /\ input.rows[2] = HeaderRow
  /\ Len(wayback_urls) = 1

\* C7: entry filtering. When the conversion loop has ended, the entries are
\* exactly the rows of two or more fields, in the order of the rows, each
\* with field 0 as original URL and
\* "https://web.archive.org/web/<field 1>/<field 0>" as archive URL; shorter
\* rows leave nothing and do not stop the loop.
ValidIdx == { p \in DOMAIN url_data : Len(url_data[p]) >= 2 }

Rank(p) == Cardinality({ q \in ValidIdx : q <= p })

C7_EntryFiltering ==
  /\ pc = "convert" => ENABLED Next
  /\ pc = "check_empty" =>
       /\ Len(wayback_urls) = Cardinality(ValidIdx)
       /\ \A p \in ValidIdx :
            /\ wayback_urls[Rank(p)].original_url = url_data[p][1]
            /\ wayback_urls[Rank(p)].wayback_url =
                 <<"https", ":", "/", "/", "web.archive.org", "/", "web", "/">>
                   \o url_data[p][2] \o <<"/">> \o url_data[p][1]

C7_Witness ==
  /\ pc = "check_empty"
  /\ Len(url_data) = 2
  /\ Len(url_data[1]) = 1
  /\ Len(url_data[2]) = 3
  /\ Len(wayback_urls) = 1

\* C8: later write wins. After the run, a file that some entry wrote
\* successfully holds the body of the last entry that wrote it successfully,
\* whatever happened to later entries with the same path.
C8_LaterWriteWins ==
  pc = "done" =>
     \A f \in DOMAIN fs.files :
        LET S == { k \in DOMAIN attempts : attempts[k].ok /\ attempts[k].path = f }
        IN S # {} =>
             fs.files[f] = attempts[CHOOSE k \in S : \A m \in S : m <= k].body

\* C9: per-entry state machine. An entry only moves PENDING -> FETCHING ->
\* DONE or FAILED; it leaves PENDING only when every entry before it is
\* DONE or FAILED; at most one entry is FETCHING; and no more GETs have been
\* issued than entries have left PENDING, each GET being issued for the
\* entry that is FETCHING.
C9_StatusStep ==
  \A k \in DOMAIN status :
     (k \in DOMAIN status' /\ status'[k] # status[k]) =>
        \/ /\ status[k] = PENDING
           /\ status'[k] = FETCHING
           /\ \A m \in 1..(k - 1) : Finished(m)
        \/ /\ status[k] = FETCHING
           /\ status'[k] \in {DONE, FAILED}

C9_GetStep ==
  gets' # gets =>
     /\ Len(gets') = Len(gets) + 1
     /\ status[i] = FETCHING
     /\ response = NoResponse
     /\ Len(gets) < Cardinality({ k \in DOMAIN status : status[k] # PENDING })

C9_StateMachine ==
  /\ [](Cardinality({ k \in DOMAIN status : status[k] = FETCHING }) <= 1)
  /\ [](Len(gets) <= Cardinality({ k \in DOMAIN status : status[k] # PENDING }))
  /\ [][C9_StatusStep /\ C9_GetStep]_vars

C9_Witness ==
  /\ pc = "sleep"
  /\ i = 2
  /\ status[1] = FAILED
  /\ status[2] = DONE
  /\ Len(gets) = 2

\* C10: a failed fetch has no filesystem effect. When the GET of an entry
\* has failed, download_page returns None and the directory tree is as it
\* was before the entry was processed.
C10_FailedFetchNoFsEffect ==
  (pc = "return" /\ response = FetchError) => (ret = None /\ fs = fs_before)

====
